---- MODULE Spec2Model ----
(***************************************************************************)
(* Model of streamlit_app.py: the session state of the "Yoruba & Igbo      *)
(* Ethical Showdown" and the script that Streamlit re-executes from the    *)
(* top on every user interaction.  One action of the model is one user     *)
(* interaction: the script run that sees the pressed button, followed,     *)
(* when that run ends in st.rerun(), by the script run the rerun starts.   *)
(* The generative service is external: each call either returns an opaque  *)
(* text or raises, and an exception ends the script run where it happens.  *)
(***************************************************************************)
EXTENDS Integers, Sequences, FiniteSets, TLC

\* session_state: st.session_state;  widgets: the widgets the last script run
\* rendered;  event: the widget event that started the last interaction;
\* calls: the generation calls that interaction issued, in order;
\* error: the error it surfaced.
VARIABLES session_state, widgets, event, calls, error

vars == <<session_state, widgets, event, calls, error>>

\* ---------------------------------------------------------------- bounds
\* Interactions are only taken while both scores stay within MaxScore.
MaxScore == 30

\* ------------------------------------------------------------ value sets
None == "None"
Unset == "<unset>"           \* attribute absent from st.session_state
UnsetText == <<"<unset>">>   \* the same, for a character-sequence attribute
GenerationError == "GenerationError"
NoError == "none"
InvalidInput == "InvalidInput"

\* response.text of a successful generate_content call
ResponseTexts == {"g1", "g2"}
\* outcome of one generate_content call: a text, or an exception
GenOutcomes == ResponseTexts \cup {GenerationError}
\* outcomes of the successive generation calls of one interaction, in call
\* order (no interaction issues more than two calls)
GenPairs == GenOutcomes \X GenOutcomes

\* contents of the scenario text area
Scenarios == {"", "X", "Y"}

T_empty == <<>>
T_Effort == <<"E", "f", "f", "o", "r", "t">>
T_nice == <<"n", "i", "c", "e">>
T_e2e == <<"f", "a", "t", "e", " ", "a", "n", "d", " ", "d", "e", "s", "t", "i", "n", "y", " ", "g", "u", "i", "d", "e", " ", "b", "e", "t", "t", "e", "r">>
T_priority == <<"p", "r", "i", "o", "r", "i", "t", "y">>
\* contents of the challenge text area
ChallengeTexts == {T_empty, T_Effort, T_nice, T_e2e, T_priority}

\* ------------------------------------------------- str.lower and "in"
UpperCase == <<"A", "B", "C", "D", "E", "F", "G", "H", "I", "J", "K", "L", "M", "N", "O", "P", "Q", "R", "S", "T", "U", "V", "W", "X", "Y", "Z">>
LowerCase == <<"a", "b", "c", "d", "e", "f", "g", "h", "i", "j", "k", "l", "m", "n", "o", "p", "q", "r", "s", "t", "u", "v", "w", "x", "y", "z">>

LowerChar(c) ==
    IF \E i \in 1..26 : UpperCase[i] = c
    THEN LowerCase[CHOOSE i \in 1..26 : UpperCase[i] = c]
    ELSE c

\* variant: the text is compared as typed
lower_AsTyped(s) == s

lower(s) == [i \in 1..Len(s) |-> LowerChar(s[i])]

\* Python's  word in text  on strings: substring containment
StrIn(word, text) ==
    \E i \in 0..(Len(text) - Len(word)) : SubSeq(text, i + 1, i + Len(word)) = word

IfaCounterWords == <<
    <<"w", "i", "l", "l">>,
    <<"e", "f", "f", "o", "r", "t">>,
    <<"f", "r", "e", "e", " ", "w", "i", "l", "l">>,
    <<"c", "o", "m", "m", "u", "n", "i", "t", "y">>,
    <<"u", "m", "u", "n", "n", "a">>,
    <<"e", "t", "h", "i", "c", "s">> >>

IgboCounterWords == <<
    <<"f", "a", "t", "e">>,
    <<"r", "i", "t", "u", "a", "l">>,
    <<"s", "p", "i", "r", "i", "t", "u", "a", "l">>,
    <<"o", "r", "i">>,
    <<"c", "o", "s", "m", "i", "c">>,
    <<"d", "e", "s", "t", "i", "n", "y">> >>

AnyWordIn(words, text) == \E k \in 1..Len(words) : StrIn(words[k], text)

\* ------------------------------------------------------------ the phases
\* The phase the dispatch chain of the script selects for a session state.
Phase(s) ==
    IF ~s.advice_given THEN "Idle"
    ELSE IF s.advice_given /\ ~s.show_reflection THEN "AdviceShown"
    ELSE IF s.show_reflection /\ ~s.challenge_active THEN "ReflectionShown"
    ELSE IF s.challenge_active
         THEN (IF s.show_challenge_result THEN "ChallengeResolved" ELSE "ChallengeActive")
    ELSE "NoBranch"

\* --------------------------------------------------- session state at start
InitialSessionState ==
    [ ase_score |-> 0,
      umunna_score |-> 0,
      advice_given |-> FALSE,
      show_reflection |-> FALSE,
      challenge_active |-> FALSE,
      challenge_agent |-> None,
      challenge_response |-> "",
      show_challenge_result |-> FALSE,
      accepted_elder |-> None,
      challenged_elder |-> None,
      yoruba_advice |-> Unset,
      igbo_advice |-> Unset,
      current_scenario |-> Unset,
      challenge_input |-> UnsetText ]

\* ---------------------------------------------------- generation calls
\* Each returns response.text; the outcome of the external call is an input.
get_advice(system_prompt, user_scenario, outcome) == outcome

get_reflection(reflector_name, rejected_name, scenario, rejected_advice, outcome) == outcome

get_challenge_response(agent_name, user_challenge, scenario, agent_advice, outcome) == outcome

\* ------------------------------------------------- the button handlers
\* variant: the reset forgets the challenge flags
ResetGameScores_KeepsChallenge(s) ==
    [s EXCEPT !.ase_score = 0, !.umunna_score = 0,
              !.advice_given = FALSE, !.show_reflection = FALSE,
              !.accepted_elder = None, !.challenged_elder = None]

ResetGameScores(s) ==
    [s EXCEPT !.ase_score = 0, !.umunna_score = 0,
              !.advice_given = FALSE, !.show_reflection = FALSE,
              !.challenge_active = FALSE, !.show_challenge_result = FALSE,
              !.accepted_elder = None, !.challenged_elder = None]

\* variant: the submitted scenario is not stored
StoreAdvice_NoScenario(s, scenario) ==
    [s EXCEPT !.advice_given = TRUE,
              !.show_reflection = FALSE,
              !.challenge_active = FALSE,
              !.accepted_elder = None,
              !.challenged_elder = None,
              !.show_challenge_result = FALSE]

StoreAdvice(s, scenario) ==
    [s EXCEPT !.current_scenario = scenario,
              !.advice_given = TRUE,
              !.show_reflection = FALSE,
              !.challenge_active = FALSE,
              !.accepted_elder = None,
              !.challenged_elder = None,
              !.show_challenge_result = FALSE]

AcceptYoruba(s) ==
    [s EXCEPT !.ase_score = @ + 20, !.accepted_elder = "Yoruba", !.show_reflection = TRUE]

\* variant: accepting the Igbo Elder credits the other axis
AcceptIgbo_WrongAxis(s) ==
    [s EXCEPT !.ase_score = @ + 20, !.accepted_elder = "Igbo", !.show_reflection = TRUE]

AcceptIgbo(s) ==
    [s EXCEPT !.umunna_score = @ + 20, !.accepted_elder = "Igbo", !.show_reflection = TRUE]

ForceCritique(s) == [s EXCEPT !.show_reflection = TRUE]

\* variant: the challenge is activated without recording the challenged elder
ChallengeIfa_NoElder(s) == [s EXCEPT !.challenge_active = TRUE]

ChallengeIfa(s) ==
    [s EXCEPT !.challenge_active = TRUE, !.challenged_elder = "Ifa Priest"]

ChallengeIgbo(s) ==
    [s EXCEPT !.challenge_active = TRUE, !.challenged_elder = "Igbo Elder"]

\* variant: the accepted elder survives the end of the cycle
ConcludeBase_KeepsAccepted(s) ==
    [s EXCEPT !.ase_score = @ + 10, !.umunna_score = @ + 10,
              !.advice_given = FALSE, !.show_reflection = FALSE,
              !.challenge_active = FALSE,
              !.challenged_elder = None,
              !.show_challenge_result = FALSE]

ConcludeBase(s) ==
    [s EXCEPT !.ase_score = @ + 10, !.umunna_score = @ + 10,
              !.advice_given = FALSE, !.show_reflection = FALSE,
              !.challenge_active = FALSE,
              !.accepted_elder = None, !.challenged_elder = None,
              !.show_challenge_result = FALSE]

StoreDefense(s, defense, challenge_input) ==
    [s EXCEPT !.challenge_response = defense,
              !.challenge_input = challenge_input,
              !.show_challenge_result = TRUE]

\* variant: the advice flag survives the end of the cycle
ConcludeCycle_KeepsAdvice(s) ==
    [s EXCEPT !.show_reflection = FALSE,
              !.challenge_active = FALSE,
              !.show_challenge_result = FALSE,
              !.accepted_elder = None,
              !.challenged_elder = None]

\* variant: the result flag survives the end of the cycle
ConcludeCycle_KeepsResult(s) ==
    [s EXCEPT !.advice_given = FALSE,
              !.show_reflection = FALSE,
              !.challenge_active = FALSE,
              !.accepted_elder = None,
              !.challenged_elder = None]

ConcludeCycle(s) ==
    [s EXCEPT !.advice_given = FALSE,
              !.show_reflection = FALSE,
              !.challenge_active = FALSE,
              !.show_challenge_result = FALSE,
              !.accepted_elder = None,
              !.challenged_elder = None]

\* ------------------------------------------------------ scoring logic
\* success of the verdict for a challenged elder and a challenge text
Success(challenged_elder, challenge_input) ==
    \/ challenged_elder = "Ifa Priest" /\ AnyWordIn(IfaCounterWords, lower(challenge_input))
    \/ challenged_elder = "Igbo Elder" /\ AnyWordIn(IgboCounterWords, lower(challenge_input))

\* variant: the two increments of the branch are exchanged
IfaSuccess_Swapped(s) == [s EXCEPT !.ase_score = @ + 10, !.umunna_score = @ + 30]

IfaSuccess(s) == [s EXCEPT !.ase_score = @ + 30, !.umunna_score = @ + 10]

\* variant: the branch forgets the increment of the other axis
IgboSuccess_OwnOnly(s) == [s EXCEPT !.umunna_score = @ + 30]

IgboSuccess(s) == [s EXCEPT !.umunna_score = @ + 30, !.ase_score = @ + 10]

\* variant: a defeat costs points
Defeated_Penalty(s) == [s EXCEPT !.ase_score = @ - 5, !.umunna_score = @ - 5]

\* variant: a defeat credits one axis only
Defeated_OneAxis(s) == [s EXCEPT !.ase_score = @ + 5]

Defeated(s) == [s EXCEPT !.ase_score = @ + 5, !.umunna_score = @ + 5]

\* the scoring block inside  if st.session_state.get('show_challenge_result')
Scoring(s) ==
    LET user_input_lower == lower(s.challenge_input) IN
    IF s.challenged_elder = "Ifa Priest" /\ AnyWordIn(IfaCounterWords, user_input_lower)
    THEN IfaSuccess(s)
    ELSE IF s.challenged_elder = "Igbo Elder" /\ AnyWordIn(IgboCounterWords, user_input_lower)
    THEN IgboSuccess(s)
    ELSE Defeated(s)

\* ------------------------------------------------------ one script run
\* Result of a script run: the session state it leaves, whether it ended in
\* st.rerun(), the generation calls it issued, the error it surfaced and the
\* widgets it rendered.
Result(s, rerun, cs, err, ws) ==
    [ss |-> s, rerun |-> rerun, calls |-> cs, error |-> err, widgets |-> ws]

SidebarWidgets == {"reset"}
IdleWidgets == SidebarWidgets \cup {"scenario_input", "present"}
AdviceWidgets == SidebarWidgets \cup {"acc_y", "acc_i", "crit"}
ReflectionWidgets == SidebarWidgets \cup {"chal_y", "chal_i", "conclude_base"}
ChallengeWidgets == SidebarWidgets \cup {"challenge_text", "submit_challenge"}
ResultWidgets == ChallengeWidgets \cup {"conclude_cycle"}

\* variant: the scenario text is not tested before the advice calls
IdleBranch_NoEmptyTest(s, ev, scenario, g) ==
    IF ev = "present"
    THEN LET a1 == get_advice("YORUBA_SYSTEM_PROMPT", scenario, g[1])
             a2 == get_advice("IGBO_SYSTEM_PROMPT", scenario, g[2])
         IN IF a1 = GenerationError
            THEN Result(s, FALSE, <<"get_advice:Yoruba">>, GenerationError, IdleWidgets)
            ELSE IF a2 = GenerationError
            THEN Result([s EXCEPT !.yoruba_advice = a1], FALSE,
                        <<"get_advice:Yoruba", "get_advice:Igbo">>,
                        GenerationError, IdleWidgets)
            ELSE Result(StoreAdvice([s EXCEPT !.yoruba_advice = a1, !.igbo_advice = a2],
                                    scenario),
                        TRUE, <<"get_advice:Yoruba", "get_advice:Igbo">>,
                        NoError, IdleWidgets)
    ELSE Result(s, FALSE, <<>>, NoError, IdleWidgets)

\* if not st.session_state.advice_given:
IdleBranch(s, ev, scenario, g) ==
    IF ev = "present"
    THEN IF scenario # ""
         THEN LET a1 == get_advice("YORUBA_SYSTEM_PROMPT", scenario, g[1])
                  a2 == get_advice("IGBO_SYSTEM_PROMPT", scenario, g[2])
              IN IF a1 = GenerationError
                 THEN Result(s, FALSE, <<"get_advice:Yoruba">>, GenerationError, IdleWidgets)
                 ELSE IF a2 = GenerationError
                 THEN Result([s EXCEPT !.yoruba_advice = a1], FALSE,
                             <<"get_advice:Yoruba", "get_advice:Igbo">>,
                             GenerationError, IdleWidgets)
                 ELSE Result(StoreAdvice([s EXCEPT !.yoruba_advice = a1, !.igbo_advice = a2],
                                         scenario),
                             TRUE, <<"get_advice:Yoruba", "get_advice:Igbo">>,
                             NoError, IdleWidgets)
         ELSE Result(s, FALSE, <<>>, InvalidInput, IdleWidgets)
    ELSE Result(s, FALSE, <<>>, NoError, IdleWidgets)

\* elif st.session_state.advice_given and not st.session_state.show_reflection:
AdviceBranch(s, ev) ==
    IF ev = "acc_y" THEN Result(AcceptYoruba(s), TRUE, <<>>, NoError, AdviceWidgets)
    ELSE IF ev = "acc_i" THEN Result(AcceptIgbo(s), TRUE, <<>>, NoError, AdviceWidgets)
    ELSE IF ev = "crit" THEN Result(ForceCritique(s), TRUE, <<>>, NoError, AdviceWidgets)
    ELSE Result(s, FALSE, <<>>, NoError, AdviceWidgets)

\* variant: the accepted elder, not the other one, is asked for the critique
Critiques_AcceptedCritic(s, g) ==
    IF s.accepted_elder = "Yoruba"
    THEN LET c == get_reflection("Ifa Priest", "Igbo Elder", s.current_scenario, s.igbo_advice, g[1])
         IN [calls |-> <<"get_reflection:Ifa Priest">>, raised |-> (c = GenerationError)]
    ELSE IF s.accepted_elder = "Igbo"
    THEN LET c == get_reflection("Igbo Elder", "Ifa Priest", s.current_scenario, s.yoruba_advice, g[1])
         IN [calls |-> <<"get_reflection:Igbo Elder">>, raised |-> (c = GenerationError)]
    ELSE LET c1 == get_reflection("Igbo Elder", "Ifa Priest", s.current_scenario, s.yoruba_advice, g[1])
             c2 == get_reflection("Ifa Priest", "Igbo Elder", s.current_scenario, s.igbo_advice, g[2])
         IN IF c1 = GenerationError
            THEN [calls |-> <<"get_reflection:Igbo Elder">>, raised |-> TRUE]
            ELSE [calls |-> <<"get_reflection:Igbo Elder", "get_reflection:Ifa Priest">>,
                  raised |-> (c2 = GenerationError)]

\* The critiques the reflection phase generates while it renders: the calls
\* issued, and whether one of them raised.
Critiques(s, g) ==
    IF s.accepted_elder = "Igbo"
    THEN LET c == get_reflection("Ifa Priest", "Igbo Elder", s.current_scenario, s.igbo_advice, g[1])
         IN [calls |-> <<"get_reflection:Ifa Priest">>, raised |-> (c = GenerationError)]
    ELSE IF s.accepted_elder = "Yoruba"
    THEN LET c == get_reflection("Igbo Elder", "Ifa Priest", s.current_scenario, s.yoruba_advice, g[1])
         IN [calls |-> <<"get_reflection:Igbo Elder">>, raised |-> (c = GenerationError)]
    ELSE LET c1 == get_reflection("Igbo Elder", "Ifa Priest", s.current_scenario, s.yoruba_advice, g[1])
             c2 == get_reflection("Ifa Priest", "Igbo Elder", s.current_scenario, s.igbo_advice, g[2])
         IN IF c1 = GenerationError
            THEN [calls |-> <<"get_reflection:Igbo Elder">>, raised |-> TRUE]
            ELSE [calls |-> <<"get_reflection:Igbo Elder", "get_reflection:Ifa Priest">>,
                  raised |-> (c2 = GenerationError)]

\* elif st.session_state.show_reflection and not st.session_state.challenge_active:
ReflectionBranch(s, ev, g) ==
    LET cr == Critiques(s, g) IN
    IF cr.raised
    THEN Result(s, FALSE, cr.calls, GenerationError, SidebarWidgets)
    ELSE IF ev = "chal_y" THEN Result(ChallengeIfa(s), TRUE, cr.calls, NoError, ReflectionWidgets)
    ELSE IF ev = "chal_i" THEN Result(ChallengeIgbo(s), TRUE, cr.calls, NoError, ReflectionWidgets)
    ELSE IF ev = "conclude_base" THEN Result(ConcludeBase(s), TRUE, cr.calls, NoError, ReflectionWidgets)
    ELSE Result(s, FALSE, cr.calls, NoError, ReflectionWidgets)

\* if st.session_state.get('show_challenge_result'):  (inside the challenge branch)
ResultBlock(s, ev, cs, err) ==
    IF s.show_challenge_result
    THEN LET scored == Scoring(s) IN
         IF ev = "conclude_cycle"
         THEN Result(ConcludeCycle(scored), TRUE, cs, err, ResultWidgets)
         ELSE Result(scored, FALSE, cs, err, ResultWidgets)
    ELSE Result(s, FALSE, cs, err, ChallengeWidgets)

\* variant: the challenge text is stored before the defense call is made
ChallengeBranch_StoresInputFirst(s, ev, challenge_input, g) ==
    LET agent_advice == IF s.challenged_elder = "Ifa Priest" THEN s.yoruba_advice ELSE s.igbo_advice
        agent_name == IF s.challenged_elder = "Ifa Priest"
                      THEN "Ifa Priest (Yoruba)" ELSE "Igbo Elder (Igbo)"
        call == IF s.challenged_elder = "Ifa Priest"
                THEN "get_challenge_response:Ifa Priest (Yoruba)"
                ELSE "get_challenge_response:Igbo Elder (Igbo)"
    IN
    IF ev = "submit_challenge"
    THEN IF challenge_input # <<>>
         THEN LET defense == get_challenge_response(agent_name, challenge_input,
                                                    s.current_scenario, agent_advice, g[1])
              IN IF defense = GenerationError
                 THEN Result([s EXCEPT !.challenge_input = challenge_input], FALSE, <<call>>,
                             GenerationError, ChallengeWidgets)
                 ELSE Result(StoreDefense(s, defense, challenge_input), TRUE, <<call>>,
                             NoError, ChallengeWidgets)
         ELSE ResultBlock(s, ev, <<>>, InvalidInput)
    ELSE ResultBlock(s, ev, <<>>, NoError)

\* elif st.session_state.challenge_active:
ChallengeBranch(s, ev, challenge_input, g) ==
    LET agent_advice == IF s.challenged_elder = "Ifa Priest" THEN s.yoruba_advice ELSE s.igbo_advice
        agent_name == IF s.challenged_elder = "Ifa Priest"
                      THEN "Ifa Priest (Yoruba)" ELSE "Igbo Elder (Igbo)"
        call == IF s.challenged_elder = "Ifa Priest"
                THEN "get_challenge_response:Ifa Priest (Yoruba)"
                ELSE "get_challenge_response:Igbo Elder (Igbo)"
    IN
    IF ev = "submit_challenge"
    THEN IF challenge_input # <<>>
         THEN LET defense == get_challenge_response(agent_name, challenge_input,
                                                    s.current_scenario, agent_advice, g[1])
              IN IF defense = GenerationError
                 THEN Result(s, FALSE, <<call>>, GenerationError, ChallengeWidgets)
                 ELSE Result(StoreDefense(s, defense, challenge_input), TRUE, <<call>>,
                             NoError, ChallengeWidgets)
         ELSE ResultBlock(s, ev, <<>>, InvalidInput)
    ELSE ResultBlock(s, ev, <<>>, NoError)

\* One execution of the script from the top, with the widget event that
\* triggered it (ev), the text-area contents and the generation outcomes.
ScriptRun(s, ev, scenario, challenge_input, g) ==
    IF ev = "reset"
    THEN Result(ResetGameScores(s), TRUE, <<>>, NoError, SidebarWidgets)
    ELSE IF ~s.advice_given
    THEN IdleBranch(s, ev, scenario, g)
    ELSE IF s.advice_given /\ ~s.show_reflection
    THEN AdviceBranch(s, ev)
    ELSE IF s.show_reflection /\ ~s.challenge_active
    THEN ReflectionBranch(s, ev, g)
    ELSE IF s.challenge_active
    THEN ChallengeBranch(s, ev, challenge_input, g)
    ELSE Result(s, FALSE, <<>>, NoError, SidebarWidgets)

\* the outcomes left for the calls that follow the first n calls
Remaining(g, n) == [i \in 1..(Len(g) - n) |-> g[i + n]]

\* A user interaction: the run that sees the event and, after st.rerun(),
\* the run that follows it without an event.
Interaction(s, ev, scenario, challenge_input, g) ==
    LET r1 == ScriptRun(s, ev, scenario, challenge_input, g) IN
    IF r1.rerun
    THEN LET r2 == ScriptRun(r1.ss, "none", scenario, challenge_input,
                             Remaining(g, Len(r1.calls)))
         IN Result(r2.ss, FALSE, r1.calls \o r2.calls, r2.error, r2.widgets)
    ELSE r1

\* ------------------------------------------------------------- the actions
Commit(ev, r) ==
    /\ event' = ev
    /\ r.ss.ase_score <= MaxScore
    /\ r.ss.umunna_score <= MaxScore
    /\ session_state' = r.ss
    /\ widgets' = r.widgets
    /\ calls' = r.calls
    /\ error' = r.error

\* a press of a rendered button, with the outcomes g of the generation calls
PressWith(ev, g) ==
    /\ ev \in widgets
    /\ Commit(ev, Interaction(session_state, ev, "", <<>>, g))

Press(ev) == \E g \in GenPairs : PressWith(ev, g)

resetScores == Press("reset")

submitScenarioWith(scenario, g) ==
    /\ "present" \in widgets
    /\ Commit("present", Interaction(session_state, "present", scenario, <<>>, g))

submitScenario ==
    \E scenario \in Scenarios, g \in GenPairs : submitScenarioWith(scenario, g)

acceptYoruba == Press("acc_y")

acceptIgbo == Press("acc_i")

forceCritique == Press("crit")

challengeIfa == Press("chal_y")

challengeIgbo == Press("chal_i")

concludeBase == Press("conclude_base")

submitChallengeWith(text, g) ==
    /\ "submit_challenge" \in widgets
    /\ Commit("submit_challenge", Interaction(session_state, "submit_challenge", "", text, g))

submitChallenge ==
    \E text \in ChallengeTexts, g \in GenPairs : submitChallengeWith(text, g)

concludeCycle == Press("conclude_cycle")

\* editing a text area re-executes the script without any button pressed
editText ==
    /\ widgets \cap {"scenario_input", "challenge_text"} # {}
    /\ \E g \in GenPairs :
          Commit("none", Interaction(session_state, "none", "", <<>>, g))

\* the first script run of a fresh session
FirstRun == ScriptRun(InitialSessionState, "none", "", <<>>, <<"g1", "g1">>)

Init ==
    /\ session_state = FirstRun.ss
    /\ widgets = FirstRun.widgets
    /\ event = "none"
    /\ calls = FirstRun.calls
    /\ error = FirstRun.error

Next ==
    \/ resetScores
    \/ submitScenario
    \/ acceptYoruba
    \/ acceptIgbo
    \/ forceCritique
    \/ challengeIfa
    \/ challengeIgbo
    \/ concludeBase
    \/ submitChallenge
    \/ concludeCycle
    \/ editText

Spec == Init /\ [][Next]_vars

\* ================================================================ claims
ase == session_state.ase_score
umunna == session_state.umunna_score
phase == Phase(session_state)
challenged == session_state.challenged_elder
accepted == session_state.accepted_elder

\* The step is a challenge submission that was accepted: the text was
\* non-empty and the defense call returned, so the defense was stored and the
\* rerun rendered the verdict.
ChallengeAccepted ==
    /\ event' = "submit_challenge"
    /\ calls' # <<>>
    /\ error' = NoError

C2_ConcludeCyclePreservesScores ==
    [][(phase = "ChallengeResolved" /\ event' = "conclude_cycle") =>
          /\ Phase(session_state') = "Idle"
          /\ session_state'.ase_score = ase
          /\ session_state'.umunna_score = umunna]_vars

\* C3: resetScores is offered in every reachable state, and from every one of
\* them it leaves both scores 0 and the phase Idle, with all four flags false
\* and both persona references cleared, and no generation call runs in the
\* interaction.
C3_ResetFromAnyState ==
    /\ []("reset" \in widgets)
    /\ [][event' = "reset" =>
             /\ session_state'.ase_score = 0
             /\ session_state'.umunna_score = 0
             /\ Phase(session_state') = "Idle"
             /\ ~session_state'.advice_given
             /\ ~session_state'.show_reflection
             /\ ~session_state'.challenge_active
             /\ ~session_state'.show_challenge_result
             /\ session_state'.accepted_elder = None
             /\ session_state'.challenged_elder = None
             /\ calls' = <<>>
             /\ error' = NoError]_vars

\* a reset has discarded a cycle in which a challenge had been scored
C3_Witness ==
    /\ event = "reset"
    /\ phase = "Idle"
    /\ ase = 0
    /\ umunna = 0
    /\ session_state.challenge_input # UnsetText
    /\ calls = <<>>

\* The spec's end-to-end trace, step by step: each step starts where the trace
\* has brought the session, with the scores the trace has produced so far.
E2E_Submit ==
    (phase = "Idle" /\ ase = 0 /\ umunna = 0
       /\ event' = "present" /\ calls' # <<>> /\ error' = NoError) =>
          /\ Phase(session_state') = "AdviceShown"
          /\ session_state'.yoruba_advice \in ResponseTexts
          /\ session_state'.igbo_advice \in ResponseTexts
          /\ calls' = <<"get_advice:Yoruba", "get_advice:Igbo">>

E2E_Accept ==
    (phase = "AdviceShown" /\ ase = 0 /\ umunna = 0
       /\ event' = "acc_y" /\ error' = NoError) =>
          /\ session_state'.ase_score = 20
          /\ session_state'.umunna_score = 0
          /\ Phase(session_state') = "ReflectionShown"
          /\ calls' = <<"get_reflection:Igbo Elder">>

E2E_Challenge ==
    (phase = "ReflectionShown" /\ accepted = "Yoruba" /\ ase = 20 /\ umunna = 0
       /\ event' = "chal_i" /\ error' = NoError) =>
          /\ Phase(session_state') = "ChallengeActive"
          /\ session_state'.challenged_elder = "Igbo Elder"
          /\ session_state'.ase_score = 20
          /\ session_state'.umunna_score = 0

\* the last step of the trace is taken: the challenge text of the trace is
\* submitted against the Igbo Elder with scores 20/0
E2E_Verdict ==
    /\ phase = "ChallengeActive" /\ accepted = "Yoruba" /\ challenged = "Igbo Elder"
    /\ ase = 20 /\ umunna = 0
    /\ ChallengeAccepted
    /\ session_state'.challenge_input = T_e2e

C5_ResolvedIsTerminal ==
    [][(phase = "ChallengeResolved" /\ event' \notin {"conclude_cycle", "reset"}) =>
          /\ Phase(session_state') = "ChallengeResolved"
          /\ session_state'.challenge_response = session_state.challenge_response
          /\ session_state'.challenge_input = session_state.challenge_input
          /\ session_state'.ase_score = ase
          /\ session_state'.umunna_score = umunna
          /\ ~ChallengeAccepted]_vars

\* C6: when one of the two advice calls of submitScenario fails, the phase
\* stays Idle and the stored advice of both personas and the stored scenario
\* are what they were before.
C6_AdviceBothOrNothing ==
    [][(event' = "present" /\ error' = GenerationError) =>
          /\ Phase(session_state') = "Idle"
          /\ session_state'.yoruba_advice = session_state.yoruba_advice
          /\ session_state'.igbo_advice = session_state.igbo_advice
          /\ session_state'.current_scenario = session_state.current_scenario]_vars

\* C7: acceptPersona(p) is taken in AdviceShown, raises p's score by exactly
\* 20, leaves the other score unchanged, records p as accepted and moves the
\* phase to ReflectionShown, for both personas and any prior scores.
C7_AcceptDelta ==
    [][/\ event' = "acc_y" =>
             /\ phase = "AdviceShown"
             /\ session_state'.ase_score = ase + 20
             /\ session_state'.umunna_score = umunna
             /\ session_state'.accepted_elder = "Yoruba"
             /\ Phase(session_state') = "ReflectionShown"
       /\ event' = "acc_i" =>
             /\ phase = "AdviceShown"
             /\ session_state'.umunna_score = umunna + 20
             /\ session_state'.ase_score = ase
             /\ session_state'.accepted_elder = "Igbo"
             /\ Phase(session_state') = "ReflectionShown"]_vars

\* the Igbo Elder has just been accepted by a user who already had 10/10
C7_Witness ==
    /\ event = "acc_i"
    /\ error = NoError
    /\ phase = "ReflectionShown"
    /\ accepted = "Igbo"
    /\ umunna = 30
    /\ ase = 10

C9_DefeatedDelta ==
    [][(ChallengeAccepted /\ ~Success(challenged, session_state'.challenge_input)) =>
          /\ challenged \in {"Ifa Priest", "Igbo Elder"}
          /\ session_state'.ase_score = ase + 5
          /\ session_state'.umunna_score = umunna + 5
          /\ Phase(session_state') = "ChallengeResolved"]_vars

\* the Igbo Elder has just defeated a challenge that stressed effort
C9_Witness ==
    /\ event = "submit_challenge"
    /\ error = NoError
    /\ phase = "ChallengeResolved"
    /\ challenged = "Igbo Elder"
    /\ session_state.challenge_input = T_Effort
    /\ ~Success(challenged, session_state.challenge_input)
    /\ ase = 5
    /\ umunna = 5

\* C10: submitScenario with non-empty text and two successful calls is taken
\* in Idle, stores one advice text per persona and the scenario, moves the
\* phase to AdviceShown, leaves both scores unchanged and starts the cycle with
\* no accepted and no challenged persona.
C10_SubmitScenario ==
    [][(event' = "present" /\ calls' # <<>> /\ error' = NoError) =>
          /\ phase = "Idle"
          /\ calls' = <<"get_advice:Yoruba", "get_advice:Igbo">>
          /\ session_state'.yoruba_advice \in ResponseTexts
          /\ session_state'.igbo_advice \in ResponseTexts
          /\ session_state'.current_scenario \in Scenarios \ {""}
          /\ Phase(session_state') = "AdviceShown"
          /\ session_state'.ase_score = ase
          /\ session_state'.umunna_score = umunna
          /\ session_state'.accepted_elder = None
          /\ session_state'.challenged_elder = None]_vars

\* a second scenario has just been submitted by a user who holds points
C10_Witness ==
    /\ event = "present"
    /\ error = NoError
    /\ phase = "AdviceShown"
    /\ session_state.current_scenario = "Y"
    /\ session_state.yoruba_advice = "g1"
    /\ session_state.igbo_advice = "g2"
    /\ ase = 30
    /\ umunna = 10

\* C11: when the defense generation call of submitChallenge fails, the phase
\* remains ChallengeActive, no defense text or verdict is stored, and neither
\* score changes: the session state is left as it was.
C11_DefenseFailureKeepsState ==
    [][(event' = "submit_challenge" /\ error' = GenerationError) =>
          /\ Len(calls') = 1
          /\ session_state' = session_state
          /\ Phase(session_state') = phase
          /\ phase \in {"ChallengeActive", "ChallengeResolved"}]_vars

\* a first challenge of the cycle has just failed in the defense call: still
\* ChallengeActive, nothing stored
C11_Witness ==
    /\ event = "submit_challenge"
    /\ error = GenerationError
    /\ phase = "ChallengeActive"
    /\ session_state.challenge_response = ""
    /\ session_state.challenge_input = UnsetText
    /\ ase = 20
    /\ umunna = 0

\* C12: submitChallenge with empty text is rejected before any generation
\* call and leaves the whole state unchanged, in every state in which the
\* challenge input is offered.
C12_EmptyChallengeRejected ==
    [][\A g \in GenPairs :
          (event' = "submit_challenge" /\ submitChallengeWith(T_empty, g)) =>
             /\ error' = InvalidInput
             /\ calls' = <<>>
             /\ session_state' = session_state]_vars

\* C13: submitScenario with empty text is rejected as InvalidInput: no
\* generation call is made, the phase stays Idle and scenario, advice and both
\* scores are unchanged.
C13_EmptyScenarioRejected ==
    [][\A g \in GenPairs :
          (event' = "present" /\ submitScenarioWith("", g)) =>
             /\ error' = InvalidInput
             /\ calls' = <<>>
             /\ phase = "Idle"
             /\ Phase(session_state') = "Idle"
             /\ session_state' = session_state]_vars

\* an empty scenario has just been rejected in a session that holds points and
\* the advice of an earlier cycle
C13_Witness ==
    /\ event = "present"
    /\ error = InvalidInput
    /\ calls = <<>>
    /\ phase = "Idle"
    /\ session_state.current_scenario = "X"
    /\ session_state.yoruba_advice = "g2"
    /\ ase = 10
    /\ umunna = 10

\* C14: in every reachable state both scores are >= 0, and along every step
\* other than resetScores neither score decreases.
C14_ScoresMonotone ==
    /\ [](ase >= 0 /\ umunna >= 0)
    /\ [][event' # "reset" =>
             /\ session_state'.ase_score >= ase
             /\ session_state'.umunna_score >= umunna]_vars

\* a cycle that went through a defeated challenge has just been concluded
\* with both scores raised
C14_Witness ==
    /\ event = "conclude_cycle"
    /\ phase = "Idle"
    /\ ase = 10
    /\ umunna = 10

\* The verdict a step shows, read off the increments it applied.
ShownVerdict ==
    LET da == session_state'.ase_score - ase
        du == session_state'.umunna_score - umunna
    IN IF \/ challenged = "Ifa Priest" /\ da = 30 /\ du = 10
          \/ challenged = "Igbo Elder" /\ du = 30 /\ da = 10
       THEN "Success"
       ELSE IF da = 5 /\ du = 5 THEN "Defeated" ELSE "none"

\* The (challenged persona, text) pairs of the model's texts whose lower-cased
\* text contains a counter-keyword of the persona: "Effort" holds effort,
\* "fate and destiny guide better" holds fate and destiny, "priority" holds
\* ori; no other pair holds a keyword of the challenged persona's list.
KeywordSuccess ==
    { <<"Ifa Priest", T_Effort>>,
      <<"Igbo Elder", T_e2e>>,
      <<"Igbo Elder", T_priority>> }

\* C15: the verdict is a function of the challenged persona and the challenge
\* text alone: Success iff the lower-cased text contains, as a substring, a
\* counter-keyword of the challenged persona, otherwise Defeated, whatever the
\* scores, the accepted persona and the earlier cycles; a text that holds
\* only keywords of the challenged persona's own doctrine is Defeated.
C15_VerdictIsKeywordMatch ==
    [][ChallengeAccepted =>
          LET text == session_state'.challenge_input IN
          /\ text \in ChallengeTexts \ {T_empty}
          /\ ShownVerdict = (IF <<challenged, text>> \in KeywordSuccess
                             THEN "Success" ELSE "Defeated")
          /\ Success(challenged, text) <=> (<<challenged, text>> \in KeywordSuccess)]_vars

\* the Igbo Elder has just lost to a text that holds "ori" only inside
\* another word
C15_Witness ==
    /\ event = "submit_challenge"
    /\ error = NoError
    /\ phase = "ChallengeResolved"
    /\ challenged = "Igbo Elder"
    /\ session_state.challenge_input = T_priority
    /\ ase = 10
    /\ umunna = 30

\* C16: on entering ReflectionShown the critiques generated are determined by
\* the accepted persona: after an acceptance exactly one, by the persona that
\* was not accepted; after forceCritique, with no persona accepted, exactly
\* two, one by each persona.
C16_CritiquesByAcceptance ==
    [][/\ event' = "acc_y" =>
             /\ session_state'.accepted_elder = "Yoruba"
             /\ calls' = <<"get_reflection:Igbo Elder">>
       /\ event' = "acc_i" =>
             /\ session_state'.accepted_elder = "Igbo"
             /\ calls' = <<"get_reflection:Ifa Priest">>
       /\ (event' = "crit" /\ error' = NoError) =>
             /\ session_state'.accepted_elder = None
             /\ calls' = <<"get_reflection:Igbo Elder", "get_reflection:Ifa Priest">>
       /\ event' \in {"acc_y", "acc_i", "crit"} =>
             Phase(session_state') = "ReflectionShown"]_vars

\* both elders have just critiqued each other, no one accepted
C16_Witness ==
    /\ event = "crit"
    /\ error = NoError
    /\ phase = "ReflectionShown"
    /\ accepted = None
    /\ calls = <<"get_reflection:Igbo Elder", "get_reflection:Ifa Priest">>
    /\ {"chal_y", "chal_i", "conclude_base"} \subseteq widgets

ReflectionActions == {"chal_y", "chal_i", "conclude_base"}

\* C17: when no persona was accepted the two critique calls fail
\* independently: whatever the outcome of one, the other is generated, and
\* challenge(p) and concludeBase() can be taken afterwards.
C17_CritiquesFailIndependently ==
    [][event' = "crit" =>
          /\ calls' = <<"get_reflection:Igbo Elder", "get_reflection:Ifa Priest">>
          /\ ReflectionActions \subseteq widgets']_vars

\* C18: within one scenario cycle each persona's critique is generated at most
\* once: the steps that process challenge or concludeBase in ReflectionShown
\* issue no further critique generation call.
C18_CritiqueGeneratedOnce ==
    [][(phase = "ReflectionShown" /\ event' \in ReflectionActions) =>
          calls' = <<>>]_vars

\* C19: concludeCycle is accepted only in ChallengeResolved; after it the
\* phase is Idle and concludeCycle is no longer offered, so that a second
\* consecutive concludeCycle cannot change phase or scores.
C19_ConcludeCycleOnlyWhenResolved ==
    /\ []("conclude_cycle" \in widgets => phase = "ChallengeResolved")
    /\ [][event' = "conclude_cycle" =>
             /\ phase = "ChallengeResolved"
             /\ Phase(session_state') = "Idle"
             /\ "conclude_cycle" \notin widgets']_vars

\* a cycle has just been concluded after a defeated challenge: Idle, and only
\* the scenario input is offered
C19_Witness ==
    /\ event = "conclude_cycle"
    /\ phase = "Idle"
    /\ widgets = IdleWidgets
    /\ session_state.challenge_input = T_nice
    /\ ase > 0

\* C20: in every reachable state the four flags form a chain,
\* show_challenge_result => challenge_active => show_reflection =>
\* advice_given, so that they encode exactly one of the five phases, and the
\* branch the dispatch selects has its data: advice and scenario once advice
\* is given, a challenged persona once a challenge is active, a challenge
\* text once a result is shown.
C20_FlagChain ==
    /\ session_state.show_challenge_result => session_state.challenge_active
    /\ session_state.challenge_active => session_state.show_reflection
    /\ session_state.show_reflection => session_state.advice_given
    /\ phase \in {"Idle", "AdviceShown", "ReflectionShown", "ChallengeActive", "ChallengeResolved"}
    /\ session_state.advice_given =>
          /\ session_state.yoruba_advice \in ResponseTexts
          /\ session_state.igbo_advice \in ResponseTexts
          /\ session_state.current_scenario \in Scenarios \ {""}
    /\ session_state.challenge_active => challenged \in {"Ifa Priest", "Igbo Elder"}
    /\ session_state.show_challenge_result => session_state.challenge_input \in ChallengeTexts \ {T_empty}

\* all four flags are set: a verdict is on display
C20_Witness ==
    /\ session_state.show_challenge_result
    /\ session_state.challenge_active
    /\ session_state.show_reflection
    /\ session_state.advice_given
    /\ event = "none"
    /\ challenged = "Ifa Priest"

\* C21: the persona references agree with the phase in every reachable state:
\* challenged_elder is set exactly when challenge_active is true, and
\* accepted_elder is set only when show_reflection is true; so accepted_elder
\* is None throughout AdviceShown (the upset-elder display of the advice phase
\* never shows) and throughout Idle.
C21_PersonaRefsMatchPhase ==
    /\ (challenged # None) <=> session_state.challenge_active
    /\ challenged \in {None, "Ifa Priest", "Igbo Elder"}
    /\ accepted \in {None, "Yoruba", "Igbo"}
    /\ accepted # None => session_state.show_reflection
    /\ phase = "AdviceShown" => accepted = None
    /\ phase = "Idle" => (accepted = None /\ challenged = None)

\* the Ifa Priest, whose advice had been accepted, has just been challenged:
\* both references are set
C21_Witness ==
    /\ event = "chal_y"
    /\ error = NoError
    /\ phase = "ChallengeActive"
    /\ accepted = "Yoruba"
    /\ challenged = "Ifa Priest"
    /\ session_state.show_reflection

====
